---- MODULE Spec2Model ----
(***************************************************************************)
(* The transfer relay of nsync (src/nsync/server.py): the POST handler     *)
(* `transfer` over a Redis TTL store.  Every request handler is split at   *)
(* its Redis accesses (its await points): a store request is               *)
(* setex(token) ; setex(salt), a get request is get(token) ; get(salt) ;  *)
(* delete(token).  The response of a handler is built in the step of its   *)
(* last Redis access.  Handlers of different requests interleave freely,   *)
(* and time advances between any two steps.                                *)
(***************************************************************************)
EXTENDS Integers, FiniteSets, Sequences, TLC

\* ---------------------------------------------------------------- bounds
\* Number of requests the server handles at the same time.
NReq == 2
\* Number of requests the server receives in one behaviour.
MaxReqs == 3
\* Seconds by which one step of the clock advances time.
TickSecs == 450

\* ------------------------------------------------------------- constants
\* secs = 15 * 60, the lifetime given to both setex calls.
Secs == 900

Slots == 1..NReq

\* The names Haikunator().haikunate() can return (drawn at random, with no
\* uniqueness check).
Keys == {"k1", "k2"}

\* Python's None: the result of dict.get on a missing field and of a Redis
\* GET on a missing entry.
None == "<None>"

\* key + '-salt'
SaltAddr(k) == k \o "-salt"

Addrs == Keys \cup {SaltAddr(k) : k \in Keys}

\* The token and the salt a client sends with the n-th request: every
\* transfer_files call encrypts under a fresh salt (os.urandom(16)).
TokNames == <<"t1", "t2", "t3", "t4", "t5", "t6", "t7", "t8">>
SltNames == <<"s1", "s2", "s3", "s4", "s5", "s6", "s7", "s8">>
Tok(n) == TokNames[n]
Slt(n) == SltNames[n]

\* ------------------------------------------------------------ form data
\* The form fields of a POST request: a dict from field names to strings.
\* A field is present with a value, present and empty, or absent.
StoreForms(r) ==
    { [action |-> "store"],
      [action |-> "store", file |-> Tok(r), salt |-> ""],
      [action |-> "store", file |-> Tok(r), salt |-> Slt(r)] }

GetForms ==
    {[action |-> "get"]}
    \cup {[action |-> "get", key |-> k] : k \in Keys \cup {""}}

OtherForms == {[action |-> "ping", key |-> "k1"]}

NoActionForms == {[key |-> "k1"]}

Forms(r) == StoreForms(r) \cup GetForms \cup OtherForms \cup NoActionForms

\* data.get(f, default)
DataGet(d, f, default) == IF f \in DOMAIN d THEN d[f] ELSE default

\* Python truthiness of a str / bytes / None value.
Truthy(v) == v \notin {None, ""}

\* ------------------------------------------------------------ the store
NoEntry == [present |-> FALSE, val |-> "", ttl |-> 0]

\* RCLIENT.setex(a, secs, v)
SetEx(s, a, secs, v) ==
    [s EXCEPT ![a] = [present |-> TRUE, val |-> v, ttl |-> secs]]

\* RCLIENT.get(a)
RGet(s, a) == IF a \in DOMAIN s /\ s[a].present THEN s[a].val ELSE None

\* DELETE that empties the whole store.
RDeleteAll(s, a) == [b \in DOMAIN s |-> NoEntry]

\* A delete that removes nothing.
RDeleteNothing(s, a) == s

\* RCLIENT.delete(a)
RDelete(s, a) == [s EXCEPT ![a] = NoEntry]

\* Only the token entries expire.
ExpireTokensOnly(s, dt) ==
    [a \in DOMAIN s |->
        IF s[a].present /\ (s[a].ttl > dt \/ a \notin Keys)
        THEN [s[a] EXCEPT !.ttl = IF @ > dt THEN @ - dt ELSE @]
        ELSE NoEntry]

\* Entries that never expire.
ExpireNever(s, dt) == s

\* Redis removes an entry once the lifetime given to setex has elapsed.
Expire(s, dt) ==
    [a \in DOMAIN s |->
        IF s[a].present /\ s[a].ttl > dt
        THEN [s[a] EXCEPT !.ttl = @ - dt]
        ELSE NoEntry]

\* ------------------------------------------------------------ responses
NoResp == [code |-> 0, json |-> FALSE, body |-> [status |-> None]]

\* Response(status_code, content=Content(b"application/json", json.dumps(ret)))
JsonResponse(code, ret) == [code |-> code, json |-> TRUE, body |-> ret]

\* data['action'] on a form without that field raises KeyError: the
\* framework answers 500 and no ret is produced.
Fault == [code |-> 500, json |-> FALSE, body |-> [status |-> None]]

VARIABLES
    store,    \* the Redis database: address -> entry
    pc,       \* per slot: position of the handler
    data,     \* per slot: the form of the request being handled
    key,      \* per slot: the handler's local `key`
    value,    \* per slot: the handler's local `value`
    salt,     \* per slot: the handler's local `salt`
    resp,     \* per slot: the response of the last request handled
    kstate,   \* per key: None / Stored / Retrieved / Expired (section 4.7)
    fresh,    \* per key: its last store was answered, and no get began since
    age,      \* per key: seconds since its last store, while it is Stored
    dead,     \* per key: it has been Retrieved or Expired at some time
    rec,      \* per key: file and salt of the store that drew it last
    served,   \* number of requests received so far
    at,       \* per slot: the history of the key when the request began
    call,      \* per client: the ApiClient call it makes or made last
    outcome,   \* per client: how that call ended
    last_data, \* per client: self.last_data
    disk,      \* per client: the ntransfer-<key> directories on its machine
    xfer       \* per key: password and files of the transfer that drew it last

cvars == <<call, outcome, last_data, disk, xfer>>

vars == <<served, store, pc, data, key, value, salt, resp,
          kstate, fresh, age, dead, rec, at, cvars>>

hist == <<kstate, fresh, age, dead, rec, at>>

\* ------------------------------------------------------------ the client
\* The passwords, file names and file contents a user can give.
Passwords == {"p1", "p2"}
Names == {"a.txt", "b.txt"}
Contents == {"x", "y"}

\* A file argument of transfer_files: its base name (file.name) and what
\* is read from it.
File(n, c) == [name |-> n, content |-> c]

\* The *files arguments users give to transfer_files.
FileLists == { <<File("a.txt", "x"), File("b.txt", "y")>> }

\* Every list of at most two files.
AnyFiles ==
    UNION {[1..n -> {File(n1, c1) : n1 \in Names, c1 \in Contents}] : n \in 0..2}

\* base64.urlsafe_b64encode(x).decode() and base64.urlsafe_b64decode(y)
B64(x) == "b64(" \o x \o ")"
Raw == Contents \cup {Slt(n) : n \in 1..MaxReqs}
B64Decode(y) == CHOOSE x \in Raw : B64(x) = y

\* kdf.derive(password.encode()) with the given salt, urlsafe-encoded: the
\* Fernet key.
Derive(pw, sl) == "kdf(" \o pw \o "," \o sl \o ")"

\* data[key] = ...: a dict keeps the position of a name it already holds
\* and replaces its value.
RECURSIVE DictPut(_, _, _)
DictPut(items, n, v) ==
    IF items = <<>> THEN <<[name |-> n, content |-> v]>>
    ELSE IF Head(items).name = n
         THEN <<[name |-> n, content |-> v]>> \o Tail(items)
         ELSE <<Head(items)>> \o DictPut(Tail(items), n, v)

\* The dict transfer_files builds: base name -> encoded content.
RECURSIVE Payload(_)
Payload(files) ==
    IF files = <<>> THEN <<>>
    ELSE DictPut(Payload(SubSeq(files, 1, Len(files) - 1)),
                 files[Len(files)].name, B64(files[Len(files)].content))

\* json.dumps(data) and json.loads(text)
RECURSIVE JsonDumps(_)
JsonDumps(items) ==
    IF items = <<>> THEN "}"
    ELSE Head(items).name \o ":" \o Head(items).content \o ";"
         \o JsonDumps(Tail(items))
Payloads == {Payload(fl) : fl \in AnyFiles}
JsonLoads(text) == CHOOSE items \in Payloads : JsonDumps(items) = text

\* Fernet(key).encrypt(plain) and Fernet(key).decrypt(token): decrypt
\* raises InvalidToken unless the token was made under the same key.
InvalidToken == "<InvalidToken>"
Encrypt(k, plain) == "fernet(" \o k \o "," \o plain \o ")"
Plaintexts == {JsonDumps(items) : items \in Payloads}

\* A decrypt that does not authenticate the token.
DecryptAnyKey(k, token) ==
    LET hits == {pl \in Plaintexts :
                    \E pw \in Passwords, sl \in Raw :
                        Encrypt(Derive(pw, sl), pl) = token}
    IN IF hits = {} THEN InvalidToken ELSE CHOOSE pl \in hits : TRUE

Decrypt(k, token) ==
    LET hits == {pl \in Plaintexts : Encrypt(k, pl) = token}
    IN IF hits = {} THEN InvalidToken ELSE CHOOSE pl \in hits : TRUE

\* The form transfer_files posts, with the password added to it.
StoreFormWithPassword(pw, sl, files) ==
    [action |-> "store", salt |-> B64(sl), password |-> pw,
     file |-> Encrypt(Derive(pw, sl), JsonDumps(Payload(files)))]

\* The form transfer_files posts: {'file': token, 'action': 'store',
\* 'salt': salty}
StoreForm(pw, sl, files) ==
    [action |-> "store", salt |-> B64(sl),
     file |-> Encrypt(Derive(pw, sl), JsonDumps(Payload(files)))]

\* The form download posts: {'action': 'get', 'key': storage_key}
GetForm(sk) == [action |-> "get", key |-> sk]

\* A response with a JSON body is taken whatever its status code.
AcceptedAnyCode(response) == response.json

\* response.json() parses and response.status_code == 200
Accepted(response) == response.json /\ response.code = 200

\* A directory of the client's machine and the files in it.
Absent == "<absent>"
NoDir == [exists |-> FALSE, files |-> [n \in Names |-> Absent]]

\* for file, content in files.items(): fh.write(urlsafe_b64decode(content))
RECURSIVE WriteFiles(_, _)
WriteFiles(dir, items) ==
    IF items = <<>> THEN dir
    ELSE WriteFiles([dir EXCEPT !.files[Head(items).name] =
                                    B64Decode(Head(items).content)],
                    Tail(items))

\* basedir.mkdir() if it does not exist
MkDir(dir) == [dir EXCEPT !.exists = TRUE]

NoCall == [op |-> "none", pw |-> "", skey |-> "", afterFail |-> FALSE]
NoData == [status |-> None]
NoXfer == [pw |-> "", files |-> <<>>, failed |-> FALSE]

\* state, dead: kstate and dead of the key when the get began; first: the
\* get is the first one begun after the answer of the key's last store;
\* cur: no store has drawn the key since the request wrote or read its
\* token entry.
NoAt == [key |-> None, state |-> "None", dead |-> FALSE,
         first |-> FALSE, cur |-> FALSE]

Init ==
    /\ store = [a \in Addrs |-> NoEntry]
    /\ pc = [r \in Slots |-> "idle"]
    /\ data = [r \in Slots |-> [action |-> ""]]
    /\ key = [r \in Slots |-> None]
    /\ value = [r \in Slots |-> None]
    /\ salt = [r \in Slots |-> None]
    /\ resp = [r \in Slots |-> NoResp]
    /\ kstate = [k \in Keys |-> "None"]
    /\ fresh = [k \in Keys |-> FALSE]
    /\ age = [k \in Keys |-> 0]
    /\ dead = [k \in Keys |-> FALSE]
    /\ rec = [k \in Keys |-> [file |-> "", salt |-> ""]]
    /\ at = [r \in Slots |-> NoAt]
    /\ served = 0
    /\ call = [c \in Slots |-> NoCall]
    /\ outcome = [c \in Slots |-> "none"]
    /\ last_data = [c \in Slots |-> NoData]
    /\ disk = [c \in Slots |-> [k \in Keys |-> NoDir]]
    /\ xfer = [k \in Keys |-> NoXfer]

\* A slot takes a new request when it is not in the middle of one.
Free(r) == pc[r] \in {"idle", "done"}

\* data['action'] raises KeyError when the form has no action field.
HasAction(d) == "action" \in DOMAIN d

\* Every action but 'get' taken for a store.
IsStoreUnlessGet(d) == d["action"] # "get"

\* data['action'] == 'store'
IsStore(d) == d["action"] = "store"

\* data['action'] == 'get'
IsGet(d) == d["action"] = "get"

\* key = data.get('key') ; if key:
HasKey(d) == Truthy(DataGet(d, "key", None))

\* A new request is handled in the first slot that is free.
CanBegin(r) ==
    /\ Free(r)
    /\ \A q \in Slots : q < r => ~Free(q)
    /\ served < MaxReqs

\* A request begins: the slot holds its form.
Begin(r, d) ==
    /\ CanBegin(r)
    /\ served' = served + 1
    /\ data' = [data EXCEPT ![r] = d]

\* The handler returns: its locals are gone.
Return(r, response) ==
    /\ resp' = [resp EXCEPT ![r] = response]
    /\ pc' = [pc EXCEPT ![r] = "done"]
    /\ key' = [key EXCEPT ![r] = None]
    /\ value' = [value EXCEPT ![r] = None]
    /\ salt' = [salt EXCEPT ![r] = None]

\* ------------------------------------------------------------- responses
\* ret after the store branch; expiration is now + secs.
StoredRet(d, k) ==
    [action |-> d["action"], status |-> "stored", key |-> k, expiration |-> Secs]

\* ret after a successful get.
AvailableRet(d, v, s) ==
    [action |-> d["action"], status |-> "available", salt |-> s, file |-> v]

\* "expired key" without status_code = 400.
ExpiredResp200(d) ==
    JsonResponse(200, [action |-> d["action"], status |-> "expired key"])

ExpiredResp(d) ==
    JsonResponse(400, [action |-> d["action"], status |-> "expired key"])

\* "key required" without status_code = 400.
KeyRequiredResp200(d) ==
    JsonResponse(200, [action |-> d["action"], status |-> "key required"])

KeyRequiredResp(d) ==
    JsonResponse(400, [action |-> d["action"], status |-> "key required"])

UnknownResp(d) ==
    JsonResponse(400, [action |-> d["action"], status |-> "Unknown Action"])

\* if value or salt:
AvailableOr(v, s) == Truthy(v) \/ Truthy(s)

\* if value and salt:
Available(v, s) == Truthy(v) /\ Truthy(s)

\* haikunate() draws any name; the names are numbered in the order of their
\* first draw.
DrawOrder(k) == k = "k2" => kstate["k1"] # "None"

\* --------------------------------------------------------------- actions
\* store, first part: draw the key and write the token entry.
StoreToken(r, d, k) ==
    /\ Begin(r, d)
    /\ HasAction(d) /\ IsStore(d)
    /\ DrawOrder(k)
    /\ key' = [key EXCEPT ![r] = k]
    /\ store' = SetEx(store, k, Secs, DataGet(d, "file", ""))
    /\ pc' = [pc EXCEPT ![r] = "storeSalt"]
    /\ resp' = [resp EXCEPT ![r] = NoResp]
    /\ kstate' = [kstate EXCEPT ![k] = "Stored"]
    /\ fresh' = [fresh EXCEPT ![k] = FALSE]
    /\ age' = [age EXCEPT ![k] = 0]
    /\ rec' = [rec EXCEPT ![k] = [file |-> DataGet(d, "file", ""),
                                  salt |-> DataGet(d, "salt", "")]]
    /\ at' = [q \in Slots |->
                IF q = r THEN [NoAt EXCEPT !.key = k, !.cur = TRUE]
                ELSE IF at[q].key = k /\ ~Free(q)
                     THEN [at[q] EXCEPT !.cur = FALSE]
                     ELSE at[q]]
    /\ UNCHANGED <<value, salt, dead>>

\* store, second part: write the salt entry and answer.
StoreSalt(r) ==
    /\ pc[r] = "storeSalt"
    /\ store' = SetEx(store, SaltAddr(key[r]), Secs, DataGet(data[r], "salt", ""))
    /\ Return(r, JsonResponse(200, StoredRet(data[r], key[r])))
    /\ fresh' = [fresh EXCEPT ![key[r]] = at[r].cur]
    /\ UNCHANGED <<data, kstate, age, dead, rec, at, served>>

\* get, first part: read the token entry.
GetToken(r, d) ==
    /\ Begin(r, d)
    /\ HasAction(d) /\ ~IsStore(d) /\ IsGet(d)
    /\ HasKey(d)
    /\ key' = [key EXCEPT ![r] = d["key"]]
    /\ value' = [value EXCEPT ![r] = RGet(store, d["key"])]
    /\ pc' = [pc EXCEPT ![r] = "getSalt"]
    /\ resp' = [resp EXCEPT ![r] = NoResp]
    /\ at' = [at EXCEPT ![r] = [key |-> d["key"],
                                state |-> kstate[d["key"]],
                                dead |-> dead[d["key"]],
                                first |-> fresh[d["key"]],
                                cur |-> TRUE]]
    /\ fresh' = [fresh EXCEPT ![d["key"]] = FALSE]
    /\ UNCHANGED <<store, salt, kstate, age, dead, rec>>

\* get, second part: read the salt entry; a falsy token or salt is answered
\* "expired key".
GetSalt(r) ==
    /\ pc[r] = "getSalt"
    /\ IF Available(value[r], RGet(store, SaltAddr(key[r])))
       THEN /\ salt' = [salt EXCEPT ![r] = RGet(store, SaltAddr(key[r]))]
            /\ pc' = [pc EXCEPT ![r] = "getDelete"]
            /\ UNCHANGED <<resp, key, value>>
       ELSE Return(r, ExpiredResp(data[r]))
    /\ UNCHANGED <<store, data, hist, served>>

\* get, third part: delete the token entry and answer "available".
GetDelete(r) ==
    /\ pc[r] = "getDelete"
    /\ store' = RDelete(store, key[r])
    /\ Return(r, JsonResponse(200, AvailableRet(data[r], value[r], salt[r])))
    /\ kstate' = [kstate EXCEPT ![key[r]] = "Retrieved"]
    /\ age' = [age EXCEPT ![key[r]] = 0]
    /\ dead' = [dead EXCEPT ![key[r]] = TRUE]
    /\ UNCHANGED <<data, fresh, rec, at, served>>

\* get without a key.
GetNoKey(r, d) ==
    /\ Begin(r, d)
    /\ HasAction(d) /\ ~IsStore(d) /\ IsGet(d)
    /\ ~HasKey(d)
    /\ Return(r, KeyRequiredResp(d))
    /\ at' = [at EXCEPT ![r] = NoAt]
    /\ UNCHANGED <<store, kstate, fresh, age, dead, rec>>

\* any other action.
UnknownAction(r, d) ==
    /\ Begin(r, d)
    /\ HasAction(d) /\ ~IsStore(d) /\ ~IsGet(d)
    /\ Return(r, UnknownResp(d))
    /\ at' = [at EXCEPT ![r] = NoAt]
    /\ UNCHANGED <<store, kstate, fresh, age, dead, rec>>

\* a form without an action field: ret = {"action": data['action'], ...}
\* raises before any branch is taken.
NoAction(r, d) ==
    /\ Begin(r, d)
    /\ ~HasAction(d)
    /\ Return(r, Fault)
    /\ at' = [at EXCEPT ![r] = NoAt]
    /\ UNCHANGED <<store, kstate, fresh, age, dead, rec>>

\* Time advances by TickSecs; Redis drops the entries whose lifetime is over.
\* A Stored key whose record was written Secs ago or more is Expired.
Elapsed(k) == IF kstate[k] = "Stored" THEN age[k] + TickSecs ELSE 0

Tick ==
    /\ store' = Expire(store, TickSecs)
    /\ kstate' = [k \in Keys |-> IF Elapsed(k) >= Secs THEN "Expired" ELSE kstate[k]]
    /\ age' = [k \in Keys |-> IF Elapsed(k) >= Secs THEN 0 ELSE Elapsed(k)]
    /\ dead' = [k \in Keys |-> dead[k] \/ Elapsed(k) >= Secs]
    /\ fresh' = [k \in Keys |-> fresh[k] /\ kstate'[k] = "Stored"]
    /\ <<store', kstate', age'>> # <<store, kstate, age>>
    /\ UNCHANGED <<pc, data, key, value, salt, resp, rec, at, served>>

\* Time advances; no client does anything.
TimePasses == Tick /\ UNCHANGED cvars

Next ==
    \/ \E r \in Slots :
         /\ CanBegin(r) /\ \E d \in Forms(served + 1), k \in Keys : StoreToken(r, d, k)
         /\ UNCHANGED cvars
    \/ \E r \in Slots : pc[r] = "storeSalt" /\ StoreSalt(r) /\ UNCHANGED cvars
    \/ \E r \in Slots :
         /\ CanBegin(r) /\ \E d \in Forms(served + 1) : GetToken(r, d)
         /\ UNCHANGED cvars
    \/ \E r \in Slots : pc[r] = "getSalt" /\ GetSalt(r) /\ UNCHANGED cvars
    \/ \E r \in Slots : pc[r] = "getDelete" /\ GetDelete(r) /\ UNCHANGED cvars
    \/ \E r \in Slots :
         /\ CanBegin(r) /\ \E d \in Forms(served + 1) : GetNoKey(r, d)
         /\ UNCHANGED cvars
    \/ \E r \in Slots :
         /\ CanBegin(r) /\ \E d \in Forms(served + 1) : UnknownAction(r, d)
         /\ UNCHANGED cvars
    \/ \E r \in Slots :
         /\ CanBegin(r) /\ \E d \in Forms(served + 1) : NoAction(r, d)
         /\ UNCHANGED cvars
    \/ TimePasses

Spec == Init /\ [][Next]_vars

\* Time does not stop: the clock of the Redis server keeps advancing.
FairSpec == Spec /\ WF_vars(TimePasses)

\* -------------------------------------------------------- client actions
\* Every client call is one request; the call of client c is handled in
\* slot c, and the client takes the response in the step that answers it.

\* The passwords are numbered in the order of their first use.
PwOrder(pw) == served = 0 => pw = "p1"

\* The call is under way: its arguments are the locals of the method.
Calls(c, op, pw, sk) ==
    /\ call' = [call EXCEPT ![c] =
                  [op |-> op, pw |-> pw, skey |-> sk,
                   afterFail |-> sk \in Keys /\ xfer[sk].failed
                                 /\ xfer[sk].pw = pw]]
    /\ outcome' = [outcome EXCEPT ![c] = "running"]

\* The call has returned or raised with result o: its locals are gone.
Ends(c, op, sk, o) ==
    /\ call' = [call EXCEPT ![c] = [NoCall EXCEPT !.op = op, !.skey = sk]]
    /\ outcome' = [outcome EXCEPT ![c] = o]

\* transfer_files after the post: a response that is not JSON or not 200
\* raises; otherwise it is kept in last_data and returned.
ReceiveStored(c) ==
    /\ IF Accepted(resp'[c])
       THEN /\ last_data' = [last_data EXCEPT ![c] = resp'[c].body]
            /\ Ends(c, "transfer", "", "returned")
       ELSE /\ Ends(c, "transfer", "", "ApiError")
            /\ UNCHANGED last_data
    /\ UNCHANGED disk

\* The directory after download has decrypted, decoded and written.
Written(dir, plain) == WriteFiles(MkDir(dir), JsonLoads(plain))

\* download after the post: as above, then last_data is set, the key is
\* derived from the salt of the response, the token is decrypted and the
\* files are written under ntransfer-<storage_key>.
ReceiveGot(c, pw, sk) ==
    LET body == resp'[c].body
    IN IF ~Accepted(resp'[c])
       THEN /\ Ends(c, "download", sk, "ApiError")
            /\ UNCHANGED <<last_data, disk, xfer>>
       ELSE /\ last_data' = [last_data EXCEPT ![c] = body]
            /\ IF {"salt", "file"} \subseteq DOMAIN body
               THEN LET plain == Decrypt(Derive(pw, B64Decode(body.salt)),
                                         body.file)
                    IN IF plain = InvalidToken
                       THEN /\ Ends(c, "download", sk, "InvalidToken")
                            /\ xfer' = [xfer EXCEPT ![sk].failed = @ \/ at[c].cur]
                            /\ UNCHANGED disk
                       ELSE /\ Ends(c, "download", sk, "returned")
                            /\ disk' = [disk EXCEPT ![c][sk] = Written(@, plain)]
                            /\ UNCHANGED xfer
               ELSE /\ Ends(c, "download", sk, "KeyError")
                    /\ UNCHANGED <<disk, xfer>>

\* transfer_files(pw, *files) up to the first write of the server.
TransferFiles(c, pw, files, k) ==
    /\ PwOrder(pw)
    /\ StoreToken(c, StoreForm(pw, Slt(served + 1), files), k)
    /\ Calls(c, "transfer", pw, "")
    /\ xfer' = [xfer EXCEPT ![k] = [pw |-> pw, files |-> files, failed |-> FALSE]]
    /\ UNCHANGED <<last_data, disk>>

TransferAnswered(c) ==
    /\ call[c].op = "transfer"
    /\ StoreSalt(c)
    /\ ReceiveStored(c)
    /\ UNCHANGED xfer

\* download(pw, storage_key) up to the first read of the server.
Download(c, pw, sk) ==
    /\ PwOrder(pw)
    /\ GetToken(c, GetForm(sk))
    /\ Calls(c, "download", pw, sk)
    /\ UNCHANGED <<last_data, disk, xfer>>

\* download(pw, '') is answered "key required" at once.
DownloadNoKey(c, pw) ==
    /\ PwOrder(pw)
    /\ GetNoKey(c, GetForm(""))
    /\ ReceiveGot(c, pw, "")

DownloadSalt(c) ==
    /\ call[c].op = "download"
    /\ GetSalt(c)
    /\ IF pc'[c] = "done" THEN ReceiveGot(c, call[c].pw, call[c].skey)
       ELSE UNCHANGED cvars

DownloadAnswered(c) ==
    /\ call[c].op = "download"
    /\ GetDelete(c)
    /\ ReceiveGot(c, call[c].pw, call[c].skey)

\* The relay cannot be reached properly: the post is answered with a 5xx
\* page that is not JSON, and no handler runs.
Unanswered(c, d) ==
    /\ Begin(c, d)
    /\ Return(c, Fault)
    /\ at' = [at EXCEPT ![c] = NoAt]
    /\ UNCHANGED <<store, kstate, fresh, age, dead, rec>>

TransferUnanswered(c, pw, files) ==
    /\ PwOrder(pw)
    /\ Unanswered(c, StoreForm(pw, Slt(served + 1), files))
    /\ ReceiveStored(c)
    /\ UNCHANGED xfer

DownloadUnanswered(c, pw, sk) ==
    /\ PwOrder(pw)
    /\ Unanswered(c, GetForm(sk))
    /\ ReceiveGot(c, pw, sk)

ClientNext ==
    \/ \E c \in Slots :
         CanBegin(c) /\ \E pw \in Passwords, fl \in FileLists, k \in Keys :
                            TransferFiles(c, pw, fl, k)
    \/ \E c \in Slots : pc[c] = "storeSalt" /\ TransferAnswered(c)
    \/ \E c \in Slots :
         CanBegin(c) /\ \E pw \in Passwords, sk \in Keys : Download(c, pw, sk)
    \/ \E c \in Slots : CanBegin(c) /\ \E pw \in Passwords : DownloadNoKey(c, pw)
    \/ \E c \in Slots : pc[c] = "getSalt" /\ DownloadSalt(c)
    \/ \E c \in Slots : pc[c] = "getDelete" /\ DownloadAnswered(c)
    \/ \E c \in Slots :
         CanBegin(c) /\ \E pw \in Passwords, fl \in FileLists :
                            TransferUnanswered(c, pw, fl)
    \/ \E c \in Slots :
         CanBegin(c) /\ \E pw \in Passwords, sk \in Keys :
                            DownloadUnanswered(c, pw, sk)
    \/ TimePasses

\* Clients that talk to the relay through ApiClient only.
ClientSpec == Init /\ [][ClientNext]_vars

TypeOK ==
    /\ pc \in [Slots -> {"idle", "storeSalt", "getSalt", "getDelete", "done"}]
    /\ \A a \in Addrs : store[a].ttl \in 0..Secs
    /\ served \in 0..MaxReqs

\* ---------------------------------------------------------------- claims
Done(r) == pc[r] = "done"
Status(r) == resp[r].body.status
Code(r) == resp[r].code
Terminal == {"Retrieved", "Expired"}

\* The slot r takes a new request in this step; data'[r] is its form.
Began(r) == CanBegin(r) /\ served' = served + 1

\* The get request of slot r is answered in this step.
GetAnswered(r) == pc[r] \in {"getSalt", "getDelete"} /\ pc'[r] = "done"

\* C1: exactly-once retrieval under concurrency: of the get requests racing
\* on the record one store request wrote under a key, at most one is
\* answered "available" (a token belongs to one store request only).
C1_ExactlyOnce ==
    \A r, q \in Slots :
        ( /\ r # q
          /\ Done(r) /\ Status(r) = "available"
          /\ Done(q) /\ Status(q) = "available"
          /\ at[r].key = at[q].key )
        => resp[r].body.file # resp[q].body.file

\* C2: delete-on-read for sequential requests: a get(K) that starts after a
\* get(K) was answered "available", with no store drawing K in between, is
\* answered "expired key" with HTTP 400.
C2_DeleteOnRead ==
    \A r \in Slots :
        (Done(r) /\ at[r].state = "Retrieved")
        => (Status(r) = "expired key" /\ Code(r) = 400)

C2_Witness ==
    \E r \in Slots :
        /\ Done(r) /\ at[r].state = "Retrieved"
        /\ Status(r) = "expired key"
        /\ kstate[at[r].key] = "Retrieved"

\* C3: store then first get succeeds: the first get(K) begun after the
\* answer "stored" of a store with key K, before the lifetime is over and
\* with no other store drawing K, is answered "available" with HTTP 200 and
\* the token and salt of that store request, whatever its fields were.
C3_StoreThenFirstGet ==
    [][ \A r \in Slots :
          (GetAnswered(r) /\ at[r].first /\ at[r].cur)
          => resp'[r] = JsonResponse(200,
                 AvailableRet(data[r], rec[key[r]].file, rec[key[r]].salt)) ]_vars

\* C4: TTL expiry: a get(K) that starts when the lifetime of 900 seconds of
\* the record stored under K is over, with no get(K) answered "available"
\* and no other store drawing K since, is answered "expired key", HTTP 400.
C4_TTLExpiry ==
    \A r \in Slots :
        (Done(r) /\ at[r].state = "Expired")
        => (Status(r) = "expired key" /\ Code(r) = 400)

C4_Witness ==
    \E r \in Slots :
        /\ Done(r) /\ at[r].state = "Expired"
        /\ Status(r) = "expired key" /\ Code(r) = 400
        /\ rec[at[r].key].file # ""

\* C5: the server never faults on bad input: every request is answered with
\* a JSON response of code 200 or 400.
C5_NeverFaults ==
    \A r \in Slots : Done(r) => (resp[r].json /\ Code(r) \in {200, 400})

\* C6: a successful get destroys the whole record: right after a get(K) is
\* answered "available", neither the entry K nor the entry K-salt is present.
C6_RecordDestroyed ==
    [][ \A r \in Slots :
          (pc[r] = "getDelete" /\ pc'[r] = "done")
          => (~store'[key[r]].present /\ ~store'[SaltAddr(key[r])].present) ]_vars

\* C7 as stated: once K is Retrieved or Expired it never returns to Stored:
\* no get(K) that starts later is answered "available", whatever keys the
\* store requests draw.
C7_TerminalForever ==
    \A r \in Slots : (Done(r) /\ at[r].dead) => Status(r) # "available"

\* C7 amended: no get(K) that starts while K is Retrieved or Expired is
\* answered "available"; K leaves these states only when a store request
\* draws K again.
C7_TerminalUntilRedrawn ==
    \A r \in Slots :
        (Done(r) /\ at[r].state \in Terminal) => Status(r) # "available"

C7_Witness ==
    \E r \in Slots :
        /\ Done(r) /\ at[r].state \in Terminal
        /\ Status(r) # "available" /\ resp[r].json
        /\ kstate[at[r].key] \in Terminal

\* C8: put is atomic: in no reachable state has a store request written the
\* token entry of its key while its salt entry is not yet written.
C8_PutAtomic ==
    \A r \in Slots :
        (pc[r] = "storeSalt" /\ at[r].cur) => ~store[key[r]].present

\* C9: missing key: a get request whose key field is absent or empty is
\* answered "key required" with HTTP 400, and the store is left unchanged.
C9_KeyRequired ==
    [][ \A r \in Slots :
          ( /\ Began(r)
            /\ HasAction(data'[r]) /\ data'[r]["action"] = "get"
            /\ DataGet(data'[r], "key", None) \in {None, ""} )
          => ( /\ pc'[r] = "done"
               /\ resp'[r].json /\ resp'[r].code = 400
               /\ resp'[r].body.status = "key required"
               /\ store' = store ) ]_vars

C9_Witness ==
    \E r \in Slots :
        /\ Done(r) /\ data[r] = [action |-> "get"]
        /\ Status(r) = "key required" /\ Code(r) = 400
        /\ \E a \in Addrs : store[a].present

\* C10: unknown action: a request whose action field is neither "store" nor
\* "get" is answered "Unknown Action" with HTTP 400, and the store is left
\* unchanged.
C10_UnknownAction ==
    [][ \A r \in Slots :
          ( /\ Began(r)
            /\ HasAction(data'[r]) /\ data'[r]["action"] \notin {"store", "get"} )
          => ( /\ pc'[r] = "done"
               /\ resp'[r].json /\ resp'[r].code = 400
               /\ resp'[r].body.status = "Unknown Action"
               /\ store' = store ) ]_vars

C10_Witness ==
    \E r \in Slots :
        /\ Done(r) /\ HasAction(data[r]) /\ data[r]["action"] = "ping"
        /\ Status(r) = "Unknown Action" /\ Code(r) = 400
        /\ \E a \in Addrs : store[a].present

\* C15: token/salt pair consistency: every get answered "available" returns
\* a token and a salt that one and the same store request sent (the n-th
\* request sends Tok(n) and Slt(n)).
C15_PairConsistent ==
    \A r \in Slots :
        (Done(r) /\ Status(r) = "available")
        => \E n \in 1..MaxReqs :
              resp[r].body.file = Tok(n) /\ resp[r].body.salt = Slt(n)

\* The step is a step of the handler in slot r.
StepOf(r) == Began(r) \/ pc'[r] # pc[r]

\* The entries that are not addressed by key k.
OtherAddrs(k) == Addrs \ {k, SaltAddr(k)}

\* C16: no cross-request interference: a request answered "expired key",
\* "key required" or "Unknown Action" changes no entry in any of its steps;
\* a get(K) answered "available" and a store that drew K change no entry
\* addressed by another key.
C16_Frame ==
    [][ \A r \in Slots :
          StepOf(r) =>
            /\ (HasAction(data'[r]) /\ data'[r]["action"] # "store"
                /\ ~(pc[r] = "getDelete"))
               => store' = store
            /\ \A k \in Keys :
                 (key[r] = k \/ key'[r] = k)
                 => \A a \in OtherAddrs(k) : store'[a] = store[a] ]_vars

C16_Witness ==
    \E r \in Slots :
        /\ Done(r) /\ Status(r) = "available"
        /\ \E k \in Keys \ {at[r].key} :
              store[k].present /\ store[SaltAddr(k)].present

\* The fields of ret for each status.
RetFields(st) ==
    CASE st = "stored" -> {"action", "status", "key", "expiration"}
      [] st = "available" -> {"action", "status", "salt", "file"}
      [] OTHER -> {"action", "status"}

\* C17: response shape: every response the handler returns has code 200
\* exactly when its status is "stored" or "available", code 400 exactly when
\* it is "key required", "expired key" or "Unknown Action"; file and salt
\* come only with "available", key and expiration only with "stored"; the
\* status is never null.
C17_ResponseShape ==
    \A r \in Slots :
        (Done(r) /\ resp[r].json) =>
            /\ Status(r) \in {"stored", "available", "key required",
                              "expired key", "Unknown Action"}
            /\ Code(r) = 200 <=> Status(r) \in {"stored", "available"}
            /\ Code(r) = 400 <=> Status(r) \in {"key required", "expired key",
                                                "Unknown Action"}
            /\ DOMAIN resp[r].body = RetFields(Status(r))

C17_Witness ==
    \E r, q \in Slots :
        /\ Done(r) /\ Status(r) = "expired key" /\ Code(r) = 400
        /\ Done(q) /\ Status(q) = "stored" /\ Code(q) = 200

\* The advertised expiration of the last answered store of k is now + secs
\* of the step that also gives the salt entry its lifetime of secs: the
\* seconds left until it are the seconds the salt entry has left.
UntilExpiration(s, k) == IF s[SaltAddr(k)].present THEN s[SaltAddr(k)].ttl ELSE 0

\* C18: the record does not expire before the advertised expiration: while
\* the store of K is answered and no get(K) has begun and no other store
\* drew K, time does not drop the token entry of K before the expiration.
C18_ExpirationHonoured ==
    [][ \A k \in Keys :
          (pc' = pc /\ served' = served /\ fresh[k] /\ ~store'[k].present)
          => UntilExpiration(store', k) = 0 ]_vars

\* C20: every entry is eventually removed: an entry that is present is
\* absent at some later time, and once the requests have stopped the store
\* becomes empty and stays empty.
StoreEmpty == \A a \in Addrs : ~store[a].present

CallEnds(c) == StepOf(c) /\ pc'[c] = "done"

\* The download of client c is answered by the relay in this step.
DownloadEnds(c) == GetAnswered(c) /\ call[c].op = "download"

DistinctNames(files) ==
    \A i, j \in 1..Len(files) : i # j => files[i].name # files[j].name

HasName(files, n) == \E i \in 1..Len(files) : files[i].name = n
ContentOf(files, n) ==
    files[CHOOSE i \in 1..Len(files) : files[i].name = n].content

\* C11: end-to-end round trip: when transfer_files(P, F), with pairwise
\* distinct names in F, was answered with key K and a download(P, K)
\* follows as the first get of K, its record being neither expired nor
\* replaced, the download returns and has written under ntransfer-K one
\* file per name in F with the content given to transfer_files, and has
\* touched no other file.
C11_RoundTrip ==
    [][ \A c \in Slots :
          ( /\ DownloadEnds(c)
            /\ at[c].first /\ at[c].cur /\ kstate[key[c]] = "Stored"
            /\ call[c].pw = xfer[key[c]].pw
            /\ DistinctNames(xfer[key[c]].files) )
          => /\ outcome'[c] = "returned"
             /\ disk'[c][key[c]].exists
             /\ \A n \in Names :
                  disk'[c][key[c]].files[n] =
                    IF HasName(xfer[key[c]].files, n)
                    THEN ContentOf(xfer[key[c]].files, n)
                    ELSE disk[c][key[c]].files[n]
             /\ \A k \in Keys \ {key[c]} : disk'[c][k] = disk[c][k] ]_vars

\* C12: a wrong password is rejected: a download(P', K) that receives the
\* record transfer_files(P, F) stored, with P' # P, fails at the decryption
\* and writes no file and makes no directory; and whatever a download
\* writes is the payload that was stored.
C12_WrongPassword ==
    [][ \A c \in Slots :
          (DownloadEnds(c) /\ at[c].cur) =>
            /\ (resp'[c].code = 200 /\ call[c].pw # xfer[key[c]].pw)
               => outcome'[c] = "InvalidToken" /\ disk'[c] = disk[c]
            /\ disk'[c] # disk[c]
               => disk'[c][key[c]] =
                    Written(disk[c][key[c]],
                            JsonDumps(Payload(xfer[key[c]].files))) ]_vars

C12_Witness ==
    \E c \in Slots :
        /\ call[c].op = "download" /\ outcome[c] = "InvalidToken"
        /\ at[c].first /\ at[c].cur
        /\ resp[c].body.salt = rec[call[c].skey].salt
        /\ ~disk[c][call[c].skey].exists

\* C13: a client call either gets a parseable response with code 200,
\* keeps it as last_data and returns it, or raises; when the response is
\* not 200 or not parseable the call raises, last_data stays as it was and
\* no file is written.
C13_AllOrNothing ==
    [][ \A c \in Slots :
          CallEnds(c) =>
            /\ outcome'[c] \in {"returned", "ApiError", "InvalidToken"}
            /\ outcome'[c] = "returned"
               => /\ resp'[c].json /\ resp'[c].code = 200
                  /\ last_data'[c] = resp'[c].body
            /\ (~resp'[c].json \/ resp'[c].code # 200)
               => /\ outcome'[c] = "ApiError"
                  /\ last_data'[c] = last_data[c]
                  /\ disk'[c] = disk[c] ]_vars

C13_Witness ==
    \E c, q \in Slots :
        /\ outcome[c] = "ApiError" /\ ~resp[c].json
        /\ last_data[c] # NoData
        /\ call[q].op = "download" /\ outcome[q] = "ApiError"
        /\ resp[q].json /\ resp[q].code = 400

\* The password, the Fernet key derived from it, and their encodings.
Secrets ==
    LET plain == Passwords \cup {Derive(pw, sl) : pw \in Passwords, sl \in Raw}
    IN plain \cup {B64(x) : x \in plain}

\* C14: the password and the derived key never leave the client: a store
\* request carries action, file (the token) and salt only, a get request
\* action and key only, and no field of a request and no entry of the
\* store is the password or the derived key.
C14_SecretsStayHome ==
    /\ \A c \in Slots :
         /\ call[c].op = "transfer" => DOMAIN data[c] = {"action", "file", "salt"}
         /\ call[c].op = "download" => DOMAIN data[c] = {"action", "key"}
         /\ call[c].op # "none"
            => \A f \in DOMAIN data[c] : data[c][f] \notin Secrets
    /\ \A a \in Addrs : store[a].val \notin Secrets

C14_Witness ==
    \E c \in Slots :
        /\ call[c].op = "transfer" /\ outcome[c] = "returned"
        /\ store[last_data[c].key].val = data[c]["file"]
        /\ store[SaltAddr(last_data[c].key)].val = data[c]["salt"]

\* C19: a failed decryption still consumes the record: a download(P, K)
\* with the right password that begins after a download(P', K) failed at
\* the decryption, no store having drawn K since, is answered "expired key"
\* and raises without writing.
C19_FailedDecryptionConsumes ==
    [][ \A c \in Slots :
          (DownloadEnds(c) /\ call[c].afterFail) =>
            /\ resp'[c].body.status = "expired key"
            /\ outcome'[c] = "ApiError"
            /\ disk'[c] = disk[c] ]_vars

C19_Witness ==
    \E c \in Slots :
        /\ call[c].op = "download" /\ call[c].skey \in Keys
        /\ xfer[call[c].skey].failed
        /\ at[c].state = "Retrieved"
        /\ outcome[c] = "ApiError" /\ Status(c) = "expired key"
====
